---- MODULE Spec2Model ----
(***************************************************************************)
(* Model of the shuttle-www material:                                      *)
(*   - the CommunitySupportedNumbers section (a React component that       *)
(*     returns a fixed element tree styled with Tailwind utility classes), *)
(*   - the Authentication icon (an svg whose root spreads caller props),   *)
(*   - the issue-tracker backend of the Clerk tutorial (Actix handlers     *)
(*     over a Postgres `issues` table).                                    *)
(***************************************************************************)
EXTENDS Integers, Sequences, FiniteSets, Bags, TLC

VARIABLES props, output, renders, viewport, hover,
          iconProps, iconOutput,
          issues, nextId, pending, response,
          earlier

vars == <<props, output, renders, viewport, hover, iconProps, iconOutput,
          issues, nextId, pending, response, earlier>>

stripVars == <<props, output, renders, viewport, hover>>
iconVars == <<iconProps, iconOutput>>
backendVars == <<issues, nextId, pending, response>>

(***************************************************************************)
(* Bounds of the model.                                                    *)
(***************************************************************************)
MaxMetrics == 3
MaxRenders == 2
MaxIssues == 1
MaxPending == 2

(***************************************************************************)
(* Element trees.  A node is an element (tag, attributes, class list,      *)
(* children) or a text node (tag "#text").  Attributes are name/value      *)
(* pairs as they are serialised into markup.  A class list is the          *)
(* className split at spaces; each class is split into its variant prefix  *)
(* ("", "sm", "lg", "group-hover"), its utility name and, where the        *)
(* utility carries one, its number or its bracketed track list.            *)
(***************************************************************************)
El(tag, attrs, cls, kids) ==
    [tag |-> tag, attrs |-> attrs, cls |-> cls, text |-> "", kids |-> kids]

Text(s) ==
    [tag |-> "#text", attrs |-> {}, cls |-> <<>>, text |-> s, kids |-> <<>>]

U(u) == [v |-> "", u |-> u, n |-> 0, tracks |-> <<>>]
V(v, u) == [v |-> v, u |-> u, n |-> 0, tracks |-> <<>>]
N(v, u, n) == [v |-> v, u |-> u, n |-> n, tracks |-> <<>>]
T(v, u, tracks) == [v |-> v, u |-> u, n |-> 0, tracks |-> tracks]

NoOutput == Text("")

(***************************************************************************)
(* The arrow glyph inside the link (source lines 12-22).                   *)
(***************************************************************************)
\* A variant whose hover class also recolours the glyph.
RightArrow_HoverColor ==
    El("svg",
       {<<"width", "17">>, <<"height", "14">>, <<"viewBox", "0 0 17 14">>,
        <<"fill", "none">>, <<"stroke", "currentColor">>,
        <<"xmlns", "http://www.w3.org/2000/svg">>},
       <<U("relative"), N("", "left", 2), U("text-[#D8D8D8]"),
         U("transition-all"), U("duration-300"), U("ease-in-out"),
         N("group-hover", "left", 4), V("group-hover", "text-white")>>,
       <<El("path",
            {<<"d", "M0 7H15M15 7L9.78261 1M15 7L9.78261 13">>,
             <<"stroke-width", "2">>},
            <<>>, <<>>)>>)

RightArrow ==
    El("svg",
       {<<"width", "17">>, <<"height", "14">>, <<"viewBox", "0 0 17 14">>,
        <<"fill", "none">>, <<"stroke", "currentColor">>,
        <<"xmlns", "http://www.w3.org/2000/svg">>},
       <<U("relative"), N("", "left", 2), U("text-[#D8D8D8]"),
         U("transition-all"), U("duration-300"), U("ease-in-out"),
         N("group-hover", "left", 4)>>,
       <<El("path",
            {<<"d", "M0 7H15M15 7L9.78261 1M15 7L9.78261 13">>,
             <<"stroke-width", "2">>},
            <<>>, <<>>)>>)

(***************************************************************************)
(* The separator glyph (source lines 26-35).                               *)
(***************************************************************************)
\* A variant that never shows the separator (lg:block left out).
Chevron_AlwaysHidden ==
    El("svg",
       {<<"width", "51">>, <<"height", "192">>, <<"viewBox", "0 0 51 192">>,
        <<"fill", "currentColor">>,
        <<"xmlns", "http://www.w3.org/2000/svg">>},
       <<U("hidden"), U("h-full"), U("w-auto"), U("text-[#191919]")>>,
       <<El("path", {<<"d", "M0 0H1L51 96L1 192H0L50 96L0 0Z">>},
            <<>>, <<>>)>>)

Chevron ==
    El("svg",
       {<<"width", "51">>, <<"height", "192">>, <<"viewBox", "0 0 51 192">>,
        <<"fill", "currentColor">>,
        <<"xmlns", "http://www.w3.org/2000/svg">>},
       <<U("hidden"), U("h-full"), U("w-auto"), U("text-[#191919]"),
         V("lg", "block")>>,
       <<El("path", {<<"d", "M0 0H1L51 96L1 192H0L50 96L0 0Z">>},
            <<>>, <<>>)>>)

(***************************************************************************)
(* The heading and call-to-action block (source lines 7-24).  next/link's  *)
(* Link renders an anchor carrying the href and className it is given.     *)
(***************************************************************************)
\* A variant whose block does not span the row below lg (col-span-3 left out).
HeadingBlock_NoColSpan ==
    El("div", {},
       <<N("lg", "col-span", 1), N("lg", "py", 12)>>,
       <<El("h2", {},
            <<U("font-gradual"), U("text-2xl"), U("font-bold"),
              U("text-[#C2C2C2]")>>,
            <<Text("Supported by the community")>>),
         El("a", {<<"href", "#">>},
            <<U("group"), N("", "mt", 3), U("inline-flex"),
              U("items-center")>>,
            <<Text("Join them now"), RightArrow>>)>>)

HeadingBlock ==
    El("div", {},
       <<N("", "col-span", 3), N("lg", "col-span", 1), N("lg", "py", 12)>>,
       <<El("h2", {},
            <<U("font-gradual"), U("text-2xl"), U("font-bold"),
              U("text-[#C2C2C2]")>>,
            <<Text("Supported by the community")>>),
         El("a", {<<"href", "#">>},
            <<U("group"), N("", "mt", 3), U("inline-flex"),
              U("items-center")>>,
            <<Text("Join them now"), RightArrow>>)>>)

(***************************************************************************)
(* One metric block as written at source lines 36-41, 42-47 and 48-53:     *)
(* a gradient-filled value paragraph followed by its label heading.        *)
(***************************************************************************)
\* A variant that writes the label into the paragraph and the value into
\* the heading.
MetricBlock_Crossed(from, to, value, label) ==
    El("div", {},
       <<U("text-center"), N("lg", "py", 12)>>,
       <<El("p", {},
            <<U("bg-gradient-to-r"), U(from), U(to), U("bg-clip-text"),
              U("font-gradual"), U("text-[2.5rem]"), U("font-bold"),
              U("leading-none"), U("text-transparent"),
              V("sm", "text-[3.5rem]")>>,
            <<Text(label)>>),
         El("h3", {},
            <<N("", "mt", 1), U("text-sm"), V("sm", "text-base")>>,
            <<Text(value)>>)>>)

MetricBlock(from, to, value, label) ==
    El("div", {},
       <<U("text-center"), N("lg", "py", 12)>>,
       <<El("p", {},
            <<U("bg-gradient-to-r"), U(from), U(to), U("bg-clip-text"),
              U("font-gradual"), U("text-[2.5rem]"), U("font-bold"),
              U("leading-none"), U("text-transparent"),
              V("sm", "text-[3.5rem]")>>,
            <<Text(value)>>),
         El("h3", {},
            <<N("", "mt", 1), U("text-sm"), V("sm", "text-base")>>,
            <<Text(label)>>)>>)

(***************************************************************************)
(* The grid container (source line 6) and its five children in source      *)
(* order.                                                                  *)
(***************************************************************************)
\* A variant with the second and third metric blocks exchanged.
GridChildren_Swapped ==
    <<HeadingBlock,
      Chevron,
      MetricBlock("from-[#FB540C]", "to-[#DD7D31]", "20k", "Github Stars"),
      MetricBlock("from-[#93B083]", "to-[#7BBB9F]", "100", "Contributors"),
      MetricBlock("from-[#B59C53]", "to-[#A5A76B]", "10k", "Discord Users")>>

GridChildren ==
    <<HeadingBlock,
      Chevron,
      MetricBlock("from-[#FB540C]", "to-[#DD7D31]", "20k", "Github Stars"),
      MetricBlock("from-[#B59C53]", "to-[#A5A76B]", "10k", "Discord Users"),
      MetricBlock("from-[#93B083]", "to-[#7BBB9F]", "100", "Contributors")>>

Grid ==
    El("div", {},
       <<U("mx-auto"), U("grid"), U("w-full"), U("max-w-[1280px]"),
         N("", "grid-cols", 3), N("", "gap-y", 12), N("", "gap-x", 8),
         N("", "px", 5), N("sm", "gap", 14), N("sm", "px", 10),
         T("lg", "grid-cols", <<"1fr", "51px", "1fr", "1fr", "1fr">>),
         V("lg", "items-center")>>,
       GridChildren)

(***************************************************************************)
(* The component (source lines 3-57).  It is declared with no parameters:  *)
(* whatever props the embedding page passes are not read, and the same     *)
(* tree is returned.                                                       *)
(***************************************************************************)
\* A variant that chooses its children in script by the viewport at render
\* time instead of leaving the choice to the stylesheet.
CommunitySupportedNumbers_ViewportBranch(p) ==
    El("div", {},
       <<N("", "mt", 24), U("border-y"), U("border-[#191919]"),
         N("", "py", 12), N("lg", "py", 0)>>,
       <<IF viewport = "lg" THEN Grid
         ELSE [Grid EXCEPT !.kids = SelectSeq(Grid.kids, LAMBDA n : n.tag # "svg")]>>)

CommunitySupportedNumbers(p) ==
    El("div", {},
       <<N("", "mt", 24), U("border-y"), U("border-[#191919]"),
         N("", "py", 12), N("lg", "py", 0)>>,
       <<Grid>>)

(***************************************************************************)
(* Reading a rendered tree.                                                *)
(***************************************************************************)
RECURSIVE Flatten(_), FlattenAll(_)
\* The nodes of a tree in document order (pre-order).
Flatten(node) == <<node>> \o FlattenAll(node.kids)
FlattenAll(ks) ==
    IF ks = <<>> THEN <<>> ELSE Flatten(Head(ks)) \o FlattenAll(Tail(ks))

IsText(node) == node.tag = "#text"

\* The text content of a subtree, as the sequence of its text nodes.
Texts(node) ==
    LET ts == SelectSeq(Flatten(node), IsText)
    IN [i \in 1..Len(ts) |-> ts[i].text]

RECURSIVE NodeAt(_, _)
NodeAt(node, path) ==
    IF path = <<>> THEN node ELSE NodeAt(node.kids[Head(path)], Tail(path))

RECURSIVE Paths(_)
Paths(node) ==
    {<<>>} \cup UNION {{<<i>> \o q : q \in Paths(node.kids[i])} :
                         i \in 1..Len(node.kids)}

HasAttr(node, name) == \E a \in node.attrs : a[1] = name
AttrOf(node, name) == (CHOOSE a \in node.attrs : a[1] = name)[2]

\* The grid container is the only child of the outer div (source line 6).
GridOf(tree) == tree.kids[1]

IsHeadingBlock(node) ==
    /\ node.tag = "div"
    /\ \E i \in 1..Len(node.kids) : node.kids[i].tag = "h2"

IsSeparator(node) == node.tag = "svg"

IsMetricBlock(node) ==
    /\ node.tag = "div"
    /\ Len(node.kids) = 2
    /\ node.kids[1].tag = "p"
    /\ node.kids[2].tag = "h3"

\* The metric display blocks of a render, in document order, each with the
\* value text and the label text it holds.
MetricBlocks(tree) ==
    LET bs == SelectSeq(GridOf(tree).kids, IsMetricBlock)
    IN [i \in 1..Len(bs) |->
           [value |-> Texts(bs[i].kids[1]), label |-> Texts(bs[i].kids[2])]]

IsTag(node, tag) == node.tag = tag

HeadingTexts(tree) ==
    LET IsH2(n) == IsTag(n, "h2")
        hs == SelectSeq(Flatten(tree), IsH2)
    IN [i \in 1..Len(hs) |-> Texts(hs[i])]

\* The links of a render: href and the text the link shows.
Links(tree) ==
    LET IsA(n) == IsTag(n, "a")
        ls == SelectSeq(Flatten(tree), IsA)
    IN [i \in 1..Len(ls) |->
           [href |-> AttrOf(ls[i], "href"), text |-> Texts(ls[i])]]

SvgPaths(tree) == {q \in Paths(tree) : NodeAt(tree, q).tag = "svg"}

\* The arrow is the svg inside the link; the separator is the svg that is
\* itself a child of the grid.
ArrowPaths(tree) ==
    {q \in SvgPaths(tree) :
        Len(q) > 1 /\ NodeAt(tree, SubSeq(q, 1, Len(q) - 1)).tag = "a"}

SeparatorPaths(tree) == SvgPaths(tree) \ ArrowPaths(tree)

TextPaths(tree) == {q \in Paths(tree) : IsText(NodeAt(tree, q))}

(***************************************************************************)
(* Styling.  The viewport is one of Tailwind's tiers for the breakpoints   *)
(* the source uses: "base" (below sm), "sm", "lg".  A class applies when   *)
(* its variant is active; among the applying classes that set the same     *)
(* CSS property the one with the later-emitted variant wins.               *)
(***************************************************************************)
Viewports == {"base", "sm", "lg"}

Active(tok, vp, hv) ==
    CASE tok.v = "" -> TRUE
      [] tok.v = "sm" -> vp \in {"sm", "lg"}
      [] tok.v = "lg" -> vp = "lg"
      [] tok.v = "group-hover" -> hv
      [] OTHER -> FALSE

Rank(tok) ==
    CASE tok.v = "" -> 0
      [] tok.v = "group-hover" -> 1
      [] tok.v = "sm" -> 2
      [] tok.v = "lg" -> 3
      [] OTHER -> 0

\* The CSS properties a utility sets.
Properties(tok) ==
    CASE tok.u \in {"hidden", "block", "grid", "inline-flex"} -> {"display"}
      [] tok.u = "col-span" -> {"grid-column"}
      [] tok.u = "grid-cols" -> {"grid-template-columns"}
      [] tok.u = "gap" -> {"row-gap", "column-gap"}
      [] tok.u = "gap-y" -> {"row-gap"}
      [] tok.u = "gap-x" -> {"column-gap"}
      [] tok.u = "py" -> {"padding-top", "padding-bottom"}
      [] tok.u = "px" -> {"padding-left", "padding-right"}
      [] tok.u = "mt" -> {"margin-top"}
      [] tok.u = "left" -> {"left"}
      [] tok.u \in {"text-2xl", "text-sm", "text-base",
                    "text-[2.5rem]", "text-[3.5rem]"} -> {"font-size"}
      [] OTHER -> {tok.u}

CssProperties(node) ==
    UNION {Properties(node.cls[i]) : i \in 1..Len(node.cls)}

Unset == [u |-> "", n |-> 0, tracks |-> <<>>]

\* The declaration that decides `prop` on `node` at this viewport and hover.
Computed(node, prop, vp, hv) ==
    LET cand == {i \in 1..Len(node.cls) :
                    /\ prop \in Properties(node.cls[i])
                    /\ Active(node.cls[i], vp, hv)}
    IN IF cand = {} THEN Unset
       ELSE LET w == CHOOSE i \in cand :
                        \A j \in cand :
                            \/ Rank(node.cls[j]) < Rank(node.cls[i])
                            \/ (Rank(node.cls[j]) = Rank(node.cls[i]) /\ j <= i)
            IN [u |-> node.cls[w].u, n |-> node.cls[w].n,
                tracks |-> node.cls[w].tracks]

Displayed(node, vp, hv) == Computed(node, "display", vp, hv).u # "hidden"

(***************************************************************************)
(* Grid layout of the container's children (source lines 6, 7, 27, 36).    *)
(***************************************************************************)
\* grid-cols-<n> is n equal tracks; grid-cols-[...] lists its tracks.
GridTemplate(grid, vp, hv) ==
    LET c == Computed(grid, "grid-template-columns", vp, hv)
    IN IF c.tracks # <<>> THEN c.tracks ELSE [i \in 1..c.n |-> "1fr"]

Span(item, vp, hv) ==
    LET c == Computed(item, "grid-column", vp, hv)
    IN IF c.u = "col-span" THEN c.n ELSE 1

Min(a, b) == IF a <= b THEN a ELSE b

\* Row-major auto-placement: an item goes at the cursor if its span fits in
\* the rest of the row, else at the start of the next row; items that are
\* not displayed take no cell.
RECURSIVE Place(_, _, _, _, _, _, _)
Place(items, k, ncols, row, col, vp, hv) ==
    IF k > Len(items) THEN <<>>
    ELSE IF ~Displayed(items[k], vp, hv)
         THEN Place(items, k + 1, ncols, row, col, vp, hv)
         ELSE LET s == Min(Span(items[k], vp, hv), ncols)
                  fits == col + s - 1 <= ncols
                  r == IF fits THEN row ELSE row + 1
                  c == IF fits THEN col ELSE 1
              IN <<[item |-> k, row |-> r, col |-> c, span |-> s]>>
                 \o Place(items, k + 1, ncols, r, c + s, vp, hv)

Layout(tree, vp, hv) ==
    LET g == GridOf(tree)
    IN Place(g.kids, 1, Len(GridTemplate(g, vp, hv)), 1, 1, vp, hv)

(***************************************************************************)
(* Accessibility tree: a node is left out when it or an ancestor carries   *)
(* aria-hidden="true" or a presentational role, or is not displayed.       *)
(***************************************************************************)
MarkedDecorative(node) ==
    \/ <<"aria-hidden", "true">> \in node.attrs
    \/ <<"role", "presentation">> \in node.attrs
    \/ <<"role", "none">> \in node.attrs

MarkedExcluded(tree, path) ==
    \E k \in 0..Len(path) : MarkedDecorative(NodeAt(tree, SubSeq(path, 1, k)))

InAccessibilityTree(tree, path, vp, hv) ==
    \A k \in 0..Len(path) :
        LET n == NodeAt(tree, SubSeq(path, 1, k))
        IN ~MarkedDecorative(n) /\ (IsText(n) \/ Displayed(n, vp, hv))

(***************************************************************************)
(* The configurations an embedding page may hand to the section.           *)
(***************************************************************************)
Metric(value, label, gradientStart, gradientEnd) ==
    [value |-> value, label |-> label,
     gradientStart |-> gradientStart, gradientEnd |-> gradientEnd]

ReferenceMetrics ==
    <<Metric("20k", "Github Stars", "#FB540C", "#DD7D31"),
      Metric("10k", "Discord Users", "#B59C53", "#A5A76B"),
      Metric("100", "Contributors", "#93B083", "#7BBB9F")>>

ReferenceContent ==
    [heading |-> "Supported by the community",
     ctaLabel |-> "Join them now",
     ctaHref |-> "#",
     metrics |-> ReferenceMetrics]

\* The sequences tried: every sequence of up to MaxMetrics metrics drawn from
\* two of the reference metrics (so shorter, longer, repeated and reordered
\* ones), and the reference sequence itself.
MetricPool == {ReferenceMetrics[1], ReferenceMetrics[3]}

MetricSeqs ==
    UNION {[1..n -> MetricPool] : n \in 0..MaxMetrics} \cup {ReferenceMetrics}

Configs ==
    [heading : {"Supported by the community", ""},
     ctaLabel : {"Join them now", ""},
     ctaHref : {"#", "/community"},
     metrics : MetricSeqs]

Rendered == output # NoOutput

(***************************************************************************)
(* The section in a page: the page renders it (again) with some config,    *)
(* the window is resized across a breakpoint, the pointer enters or        *)
(* leaves the link.  Only a render produces a tree; resizing and hovering  *)
(* are resolved by the stylesheet against the committed tree.              *)
(***************************************************************************)
\* A variant that reads the first metric and so fails on an empty sequence.
Render_ReadsFirstMetric(cfg) ==
    /\ cfg.metrics # <<>>
    /\ props' = cfg
    /\ output' = CommunitySupportedNumbers(cfg)
    /\ renders' = IF renders < MaxRenders THEN renders + 1 ELSE renders
    /\ UNCHANGED <<viewport, hover>>

\* `renders` counts the render passes so far; it stops counting at MaxRenders.
Render(cfg) ==
    /\ props' = cfg
    /\ output' = CommunitySupportedNumbers(cfg)
    /\ renders' = IF renders < MaxRenders THEN renders + 1 ELSE renders
    /\ UNCHANGED <<viewport, hover>>

Resize(vp) ==
    /\ vp # viewport
    /\ viewport' = vp
    /\ UNCHANGED <<props, output, renders, hover>>

PointerEnter ==
    /\ Rendered
    /\ ~hover
    /\ hover' = TRUE
    /\ UNCHANGED <<props, output, renders, viewport>>

PointerLeave ==
    /\ Rendered
    /\ hover
    /\ hover' = FALSE
    /\ UNCHANGED <<props, output, renders, viewport>>

(***************************************************************************)
(* The Authentication icon (source lines 63-72): an svg whose own          *)
(* attributes come first and the caller's props are spread after them,     *)
(* around one path with its own fill.                                      *)
(***************************************************************************)
AuthenticationD == "M24.4732 24.4374C25.0871 24.4374 25.6066 24.2131 26.0316 23.7645C26.4566 23.3159 26.6691 22.7847 26.6691 22.1708C26.6691 21.5569 26.4566 21.0374 26.0316 20.6124C25.6066 20.1874 25.0871 19.9749 24.4732 19.9749C23.8594 19.9749 23.3281 20.1874 22.8795 20.6124C22.4309 21.0374 22.2066 21.5569 22.2066 22.1708C22.2066 22.7847 22.4309 23.3159 22.8795 23.7645C23.3281 24.2131 23.8594 24.4374 24.4732 24.4374ZM24.4378 28.8645C25.217 28.8645 25.9253 28.6992 26.5628 28.3687C27.2003 28.0381 27.7434 27.5659 28.192 26.952C27.5781 26.6215 26.9642 26.3735 26.3503 26.2083C25.7364 26.043 25.0989 25.9604 24.4378 25.9604C23.7767 25.9604 23.1333 26.043 22.5076 26.2083C21.8819 26.3735 21.2739 26.6215 20.6837 26.952C21.1323 27.5659 21.6694 28.0381 22.2951 28.3687C22.9208 28.6992 23.635 28.8645 24.4378 28.8645ZM24.5441 31.1666C22.7024 31.1666 21.1323 30.5114 19.8337 29.201C18.535 27.8906 17.8857 26.3381 17.8857 24.5437C17.8857 22.702 18.535 21.126 19.8337 19.8156C21.1323 18.5051 22.7024 17.8499 24.5441 17.8499C26.3621 17.8499 27.9264 18.5051 29.2368 19.8156C30.5472 21.126 31.2024 22.702 31.2024 24.5437C31.2024 26.3381 30.5472 27.8906 29.2368 29.201C27.9264 30.5114 26.3621 31.1666 24.5441 31.1666ZM17.0003 31.1666C13.742 30.411 11.0385 28.5635 8.88991 25.6239C6.7413 22.6843 5.66699 19.3138 5.66699 15.5124V7.04785L17.0003 2.79785L28.3337 7.04785V16.6104C27.7434 16.327 27.1295 16.1086 26.492 15.9551C25.8545 15.8017 25.2052 15.7249 24.5441 15.7249C22.1121 15.7249 20.0403 16.5867 18.3285 18.3104C16.6166 20.034 15.7607 22.1117 15.7607 24.5437C15.7607 25.677 15.991 26.7867 16.4514 27.8728C16.9118 28.959 17.5434 29.9034 18.3462 30.7062C18.1337 30.8242 17.9094 30.9128 17.6732 30.9718C17.4371 31.0308 17.2128 31.0958 17.0003 31.1666Z"

AuthenticationDefaults ==
    {<<"width", "34">>, <<"height", "34">>, <<"viewBox", "0 0 34 34">>,
     <<"fill", "none">>, <<"xmlns", "http://www.w3.org/2000/svg">>}

AttrNames(attrs) == {a[1] : a \in attrs}

\* {...props} after the literal attributes: a later key replaces an earlier.
Spread(attrs, p) == {a \in attrs : a[1] \notin AttrNames(p)} \cup p

AuthenticationPath ==
    El("path", {<<"d", AuthenticationD>>, <<"fill", "#D8D8D8">>}, <<>>, <<>>)

Authentication(p) ==
    El("svg", Spread(AuthenticationDefaults, p), <<>>, <<AuthenticationPath>>)

\* Presentation attributes inherit: a shape paints with its own attribute
\* when it has one and with its parent's otherwise.
Paint(svg, shape, name) ==
    IF HasAttr(shape, name) THEN AttrOf(shape, name)
    ELSE IF HasAttr(svg, name) THEN AttrOf(svg, name)
    ELSE "initial"

IconAttrValues ==
    [width |-> {"16", "34"}, height |-> {"16", "34"},
     fill |-> {"red", "currentColor"}, stroke |-> {"red", "currentColor"},
     viewBox |-> {"0 0 34 34", "0 0 68 68"}]

IconAttrNames == DOMAIN IconAttrValues

\* Partial<SVGAttributes>: any subset of the attributes, one value each.
IconProps ==
    {p \in SUBSET UNION {{<<n, x>> : x \in IconAttrValues[n]} : n \in IconAttrNames} :
        \A a, b \in p : a[1] = b[1] => a = b}

RenderIcon(p) ==
    /\ iconProps' = p
    /\ iconOutput' = Authentication(p)

IconRendered == iconOutput # NoOutput

(***************************************************************************)
(* Initial state and the specifications of the two front-end components.   *)
(***************************************************************************)
\* `earlier` is an observer's note of one render the page has made, any one
\* of them: the config it was given and the tree it returned, what has
\* happened since, and whether that config has been rendered again after a
\* render of another config and a resize.  No action of the section reads it.
NoEarlier ==
    [taken |-> FALSE, props |-> ReferenceContent, output |-> NoOutput,
     since |-> {}, again |-> FALSE]

Init ==
    /\ props = ReferenceContent
    /\ output = NoOutput
    /\ renders = 0
    /\ viewport = "base"
    /\ hover = FALSE
    /\ iconProps = {}
    /\ iconOutput = NoOutput
    /\ issues = <<>>
    /\ nextId = 1
    /\ pending = EmptyBag
    /\ response = [handler |-> "none", code |-> 0, status |-> "", message |-> "",
                   data |-> <<>>]
    /\ earlier = NoEarlier

NextStrip ==
    \/ \E cfg \in Configs : Render(cfg) /\ UNCHANGED <<iconVars, backendVars, earlier>>
    \/ \E vp \in Viewports : Resize(vp) /\ UNCHANGED <<iconVars, backendVars, earlier>>
    \/ PointerEnter /\ UNCHANGED <<iconVars, backendVars, earlier>>
    \/ PointerLeave /\ UNCHANGED <<iconVars, backendVars, earlier>>

SpecStrip == Init /\ [][NextStrip]_vars

\* The configs a page renders the section with again and again: the
\* reference metrics, none, and two of them reordered, each with either href.
RerenderConfigs ==
    {c \in Configs :
        /\ c.heading = ReferenceContent.heading
        /\ c.ctaLabel = ReferenceContent.ctaLabel
        /\ c.metrics \in {ReferenceMetrics, <<>>,
                          <<ReferenceMetrics[3], ReferenceMetrics[1]>>}}

\* The observer notes this render.
Remember(cfg) ==
    earlier' = [taken |-> TRUE, props |-> cfg, output |-> output',
                since |-> {}, again |-> FALSE]

\* The observer sees a later render: of the noted config again, or of another.
ObserveRender(cfg) ==
    earlier' =
       IF ~earlier.taken THEN earlier
       ELSE IF cfg = earlier.props
       THEN [earlier EXCEPT
               !.again = @ \/ {"render", "resize"} \subseteq earlier.since]
       ELSE [earlier EXCEPT !.since = @ \cup {"render"}]

Observe(event) ==
    earlier' = IF ~earlier.taken THEN earlier
               ELSE [earlier EXCEPT !.since = @ \cup {event}]

\* The section rendered repeatedly, with one of its renders kept for
\* comparison with the later ones.
NextRerender ==
    \/ \E cfg \in RerenderConfigs :
          Render(cfg) /\ Remember(cfg) /\ UNCHANGED <<iconVars, backendVars>>
    \/ \E cfg \in RerenderConfigs :
          Render(cfg) /\ ObserveRender(cfg)
          /\ UNCHANGED <<iconVars, backendVars>>
    \/ \E vp \in Viewports :
          Resize(vp) /\ Observe("resize") /\ UNCHANGED <<iconVars, backendVars>>
    \/ PointerEnter /\ Observe("pointer") /\ UNCHANGED <<iconVars, backendVars>>
    \/ PointerLeave /\ Observe("pointer") /\ UNCHANGED <<iconVars, backendVars>>

SpecRerender == Init /\ [][NextRerender]_vars

NextIcon ==
    \E p \in IconProps : RenderIcon(p) /\ UNCHANGED <<stripVars, backendVars, earlier>>

SpecIcon == Init /\ [][NextIcon]_vars

(***************************************************************************)
(* The tutorial backend.  `issues` is the table (id -> row), `nextId` the  *)
(* SERIAL sequence behind issues.id and `response` the last response sent. *)
(* Every handler is an async fn that suspends at each `.await`, and the    *)
(* server runs other requests while it is suspended: `pending` holds the   *)
(* suspended requests, each with the await it is suspended at (`pc`) and   *)
(* the result that await will hand back (`query`).  It is a bag: requests  *)
(* alike in every field can be suspended at the same await.  One action    *)
(* runs a handler from one await to the next: it resumes with the awaited  *)
(* result, runs to the next await or to the response, and the database or  *)
(* Clerk call it issues there takes effect.                                *)
(*                                                                         *)
(* A request carries a credential: the session token's subject and whether *)
(* Clerk accepts the token.  The handlers are modelled as reachable by any *)
(* request; the middleware in front of /api can only turn requests away.   *)
(***************************************************************************)
Users == {"user_a", "user_b"}
Titles == {"Crash on start", "Typo"}

\* A token Clerk rejects yields no claim, whatever it names.
NoCredential == [valid |-> FALSE, sub |-> ""]
Credentials == [valid : {TRUE}, sub : Users] \cup {NoCredential}

NewIssues ==
    [title : Titles, description : {"details"}, status : {"open"},
     label : {"bug"}, author : Users]

IssueIds == 1..(MaxIssues + 1)

\* A response: the handler that sent it, the status code and the JSON body
\* ("status", "message", and the rows or the user under `data`).
Response(handler, code, status, message, data) ==
    [handler |-> handler, code |-> code, status |-> status,
     message |-> message, data |-> data]

None == [some |-> FALSE, sub |-> ""]
Some(sub) == [some |-> TRUE, sub |-> sub]

\* get_jwt_claim: the claim when clerk_authorize accepts the request.
get_jwt_claim(cred) == IF cred.valid THEN Some(cred.sub) ELSE None

\* fetch_one yields the first row a statement returns and fails when the
\* statement fails or returns no row.
\* A result carries its rows or its sqlx::Error; Err is a failure whose
\* error the handler does not look at (Err(_), is_err()).
SqlxErrors == {"PoolTimedOut", "PoolClosed"}
Failed(e) == [ok |-> FALSE, rows |-> <<>>, error |-> e]
Err == Failed("")
Ok(rows) == [ok |-> TRUE, rows |-> rows, error |-> ""]
fetch_one(result) == result.ok /\ result.rows # <<>>

Row(issue_id) == [id |-> issue_id] @@ issues[issue_id]

\* "SELECT * FROM issues WHERE id=$1"
SelectIssue(issue_id, dbUp) ==
    IF ~dbUp THEN Err
    ELSE IF issue_id \in DOMAIN issues
         THEN Ok(<<Row(issue_id)>>)
         ELSE Ok(<<>>)

\* "SELECT * FROM issues": every row, in an order the statement leaves to
\* the database.
SelectIssues(order, dbUp, e) ==
    IF ~dbUp THEN Failed(e) ELSE Ok([i \in DOMAIN order |-> Row(order[i])])

Orders ==
    {o \in [1..Cardinality(DOMAIN issues) -> DOMAIN issues] :
        \A i, j \in DOMAIN o : i # j => o[i] # o[j]}

\* User::get_user: the Clerk user of that id, or an error.
ClerkUser(user_id, clerkUp) ==
    IF clerkUp THEN Ok(<<[id |-> user_id]>>) ELSE Err

\* A handler suspended at an await: the extractors' values it holds and the
\* result the await will return.  A value the handler no longer reads is
\* left blank.
NoPayload ==
    [title |-> "", description |-> "", status |-> "", label |-> "",
     author |-> ""]
Suspended(kind, pc, cred, issue_id, user_id, payload, query) ==
    [kind |-> kind, pc |-> pc, cred |-> cred, issue_id |-> issue_id,
     user_id |-> user_id, payload |-> payload, query |-> query]

\* The handler of r moves on to its next await as s.
Await(r, s) ==
    pending' = (pending (-) SetToBag({r})) (+) SetToBag({s})

\* A request arrives and its handler runs to its first await as s.
Arrive(s) ==
    /\ BagCardinality(pending) < MaxPending
    /\ pending' = pending (+) SetToBag({s})

\* The handler of r returns the response.
Return(r, resp) ==
    /\ pending' = pending (-) SetToBag({r})
    /\ response' = resp

\* #[post("/issue")] add_issue up to its await: no claim is read, the author
\* is the payload's, and the INSERT returns the new row.
add_issue(payload, dbUp) ==
    /\ nextId <= MaxIssues
    /\ IF dbUp
       THEN /\ issues' = [i \in DOMAIN issues \cup {nextId} |->
                            IF i = nextId THEN payload ELSE issues[i]]
            /\ nextId' = nextId + 1
            /\ Arrive(Suspended("add_issue", "insert", NoCredential, 0,
                                "", NoPayload,
                                Ok(<<[id |-> nextId] @@ payload>>)))
       ELSE /\ UNCHANGED <<issues, nextId>>
            /\ Arrive(Suspended("add_issue", "insert", NoCredential, 0,
                                "", NoPayload, Err))
    /\ UNCHANGED response

\* add_issue from the INSERT's result on.
add_issue_respond(r) ==
    /\ BagIn(r, pending)
    /\ r.kind = "add_issue"
    /\ Return(r, IF ~r.query.ok
                 THEN Response("add_issue", 500, "FAILED",
                               "Failed to create an issue", <<>>)
                 ELSE Response("add_issue", 200, "SUCCESS",
                               "Created the issue successfully", <<>>))
    /\ UNCHANGED <<issues, nextId>>

\* The text of a sqlx::Error, as its Display writes it.
to_string(e) ==
    IF e = "PoolTimedOut"
    THEN "pool timed out while waiting for an open connection"
    ELSE "attempted to acquire a connection on a closed pool"

\* #[get("/issues")] get_issues up to its await.
get_issues(order, dbUp, e) ==
    /\ Arrive(Suspended("get_issues", "select", NoCredential, 0, "",
                        NoPayload, SelectIssues(order, dbUp, e)))
    /\ UNCHANGED <<issues, nextId, response>>

\* get_issues from the SELECT's result on: the body is the list itself.
get_issues_respond(r) ==
    /\ BagIn(r, pending)
    /\ r.kind = "get_issues"
    /\ Return(r, IF ~r.query.ok
                 THEN Response("get_issues", 500, "FAILED",
                               to_string(r.query.error), <<>>)
                 ELSE Response("get_issues", 200, "", "", r.query.rows))
    /\ UNCHANGED <<issues, nextId>>

\* #[get("/issue/{issue_id}")] get_issue up to its await.
get_issue(issue_id, dbUp) ==
    /\ Arrive(Suspended("get_issue", "select", NoCredential, issue_id, "",
                        NoPayload, SelectIssue(issue_id, dbUp)))
    /\ UNCHANGED <<issues, nextId, response>>

\* get_issue from the SELECT's result on.
get_issue_respond(r) ==
    /\ BagIn(r, pending)
    /\ r.kind = "get_issue"
    /\ Return(r, IF ~fetch_one(r.query)
                 THEN Response("get_issue", 500, "FAILED",
                               "Something went wrong.", <<>>)
                 ELSE Response("get_issue", 200, "SUCCESS", "",
                               <<r.query.rows[1]>>))
    /\ UNCHANGED <<issues, nextId>>

\* A variant that lets any signed-in user through.
IsAuthor_AnyUser(issue, claim) == TRUE

\* The author check both handlers make on the selected row.
IsAuthor(issue, claim) == issue.author = claim.sub

\* #[patch("/issue/{issue_id}")] update_issue up to its first await, inside
\* get_jwt_claim.
update_issue(cred, issue_id, payload) ==
    /\ Arrive(Suspended("update_issue", "get_jwt_claim", cred, issue_id, "",
                        payload, Err))
    /\ UNCHANGED <<issues, nextId, response>>

\* A variant that looks the issue up before it looks at the claim.
update_issue_select_LookupFirst(r, dbUp) ==
    /\ BagIn(r, pending)
    /\ r.kind = "update_issue"
    /\ r.pc = "get_jwt_claim"
    /\ IF ~fetch_one(SelectIssue(r.issue_id, dbUp))
       THEN Return(r, Response("update_issue", 404, "FAILED",
                               "Issue does not exist.", <<>>))
       ELSE IF ~get_jwt_claim(r.cred).some
       THEN Return(r, Response("update_issue", 403, "FAILED",
                               "Not authorized to update the issue.", <<>>))
       ELSE /\ Await(r, [r EXCEPT !.pc = "select",
                                  !.query = SelectIssue(r.issue_id, dbUp)])
            /\ UNCHANGED response
    /\ UNCHANGED <<issues, nextId>>

\* update_issue from the claim to its SELECT.
update_issue_select(r, dbUp) ==
    /\ BagIn(r, pending)
    /\ r.kind = "update_issue"
    /\ r.pc = "get_jwt_claim"
    /\ IF ~get_jwt_claim(r.cred).some
       THEN Return(r, Response("update_issue", 403, "FAILED",
                               "Not authorized to update the issue.", <<>>))
       ELSE /\ Await(r, [r EXCEPT !.pc = "select",
                                  !.query = SelectIssue(r.issue_id, dbUp)])
            /\ UNCHANGED response
    /\ UNCHANGED <<issues, nextId>>

\* "UPDATE issues SET title=$1, description=$2, status=$3, label=$4 WHERE
\* id=$5": the row, if still there, takes the four bound fields; the
\* statement has no RETURNING clause and returns no row.
UpdateStatement(r, dbUp) ==
    IF ~dbUp THEN Err ELSE Ok(<<>>)

UpdatedTable(r) ==
    [i \in DOMAIN issues |->
        IF i = r.issue_id
        THEN [issues[i] EXCEPT !.title = r.payload.title,
                               !.description = r.payload.description,
                               !.status = r.payload.status,
                               !.label = r.payload.label]
        ELSE issues[i]]

\* update_issue from the SELECT's result to its UPDATE.
update_issue_statement(r, dbUp) ==
    /\ BagIn(r, pending)
    /\ r.kind = "update_issue"
    /\ r.pc = "select"
    /\ IF ~fetch_one(r.query)
       THEN /\ Return(r, Response("update_issue", 404, "FAILED",
                                  "Issue does not exist.", <<>>))
            /\ UNCHANGED issues
       ELSE IF ~IsAuthor(r.query.rows[1], get_jwt_claim(r.cred))
       THEN /\ Return(r, Response("update_issue", 401, "FAILED",
                                  "Not authorized to update the issue.", <<>>))
            /\ UNCHANGED issues
       ELSE /\ issues' = IF dbUp THEN UpdatedTable(r) ELSE issues
            /\ Await(r, [r EXCEPT !.pc = "statement", !.payload = NoPayload,
                                  !.query = UpdateStatement(r, dbUp)])
            /\ UNCHANGED response
    /\ UNCHANGED nextId

\* update_issue from the UPDATE's result on.
update_issue_respond(r) ==
    /\ BagIn(r, pending)
    /\ r.kind = "update_issue"
    /\ r.pc = "statement"
    /\ Return(r, IF ~fetch_one(r.query)
                 THEN Response("update_issue", 500, "FAILED",
                               "Failed to update the issue", <<>>)
                 ELSE Response("update_issue", 200, "SUCCESS",
                               "Updated successfully", <<>>))
    /\ UNCHANGED <<issues, nextId>>

\* #[delete("/issue/{issue_id}")] delete_issue up to its first await, inside
\* get_jwt_claim.
delete_issue(cred, issue_id) ==
    /\ Arrive(Suspended("delete_issue", "get_jwt_claim", cred, issue_id, "",
                        NoPayload, Err))
    /\ UNCHANGED <<issues, nextId, response>>

\* delete_issue from the claim to its SELECT.
delete_issue_select(r, dbUp) ==
    /\ BagIn(r, pending)
    /\ r.kind = "delete_issue"
    /\ r.pc = "get_jwt_claim"
    /\ IF ~get_jwt_claim(r.cred).some
       THEN Return(r, Response("delete_issue", 403, "FAILED",
                               "Not authorized to delete the issue.", <<>>))
       ELSE /\ Await(r, [r EXCEPT !.pc = "select",
                                  !.query = SelectIssue(r.issue_id, dbUp)])
            /\ UNCHANGED response
    /\ UNCHANGED <<issues, nextId>>

\* "DELETE FROM issues WHERE id=$1": no RETURNING clause, no row returned.
DeleteStatement(r, dbUp) ==
    IF ~dbUp THEN Err ELSE Ok(<<>>)

DeletedTable(r) ==
    [i \in DOMAIN issues \ {r.issue_id} |-> issues[i]]

\* delete_issue from the SELECT's result to its DELETE.
delete_issue_statement(r, dbUp) ==
    /\ BagIn(r, pending)
    /\ r.kind = "delete_issue"
    /\ r.pc = "select"
    /\ IF ~fetch_one(r.query)
       THEN /\ Return(r, Response("delete_issue", 404, "FAILED",
                                  "Issue does not exist.", <<>>))
            /\ UNCHANGED issues
       ELSE IF ~IsAuthor(r.query.rows[1], get_jwt_claim(r.cred))
       THEN /\ Return(r, Response("delete_issue", 401, "FAILED",
                                  "No authorized to delete the issue.", <<>>))
            /\ UNCHANGED issues
       ELSE /\ issues' = IF dbUp THEN DeletedTable(r) ELSE issues
            /\ Await(r, [r EXCEPT !.pc = "statement",
                                  !.query = DeleteStatement(r, dbUp)])
            /\ UNCHANGED response
    /\ UNCHANGED nextId

\* delete_issue from the DELETE's result on.
delete_issue_respond(r) ==
    /\ BagIn(r, pending)
    /\ r.kind = "delete_issue"
    /\ r.pc = "statement"
    /\ Return(r, IF ~fetch_one(r.query)
                 THEN Response("delete_issue", 500, "FAILED",
                               "Failed to delete the issue", <<>>)
                 ELSE Response("delete_issue", 200, "SUCCESS",
                               "Deleted successfully", <<>>))
    /\ UNCHANGED <<issues, nextId>>

\* #[get("/user/me")] get_user up to its first await, inside get_jwt_claim.
get_user(cred) ==
    /\ Arrive(Suspended("get_user", "get_jwt_claim", cred, 0, "",
                        NoPayload, Err))
    /\ UNCHANGED <<issues, nextId, response>>

\* get_user from the claim to the Clerk lookup of the claim's sub.
get_user_lookup(r, clerkUp) ==
    /\ BagIn(r, pending)
    /\ r.kind = "get_user"
    /\ r.pc = "get_jwt_claim"
    /\ IF ~get_jwt_claim(r.cred).some
       THEN Return(r, Response("get_user", 403, "FAILED",
                               "Not authorized to update the issue.", <<>>))
       ELSE /\ Await(r, [r EXCEPT !.pc = "get_user",
                                  !.query = ClerkUser(
                                      get_jwt_claim(r.cred).sub, clerkUp)])
            /\ UNCHANGED response
    /\ UNCHANGED <<issues, nextId>>

\* get_user from the lookup's result on: the failure body has no "status".
get_user_respond(r) ==
    /\ BagIn(r, pending)
    /\ r.kind = "get_user"
    /\ r.pc = "get_user"
    /\ Return(r, IF ~r.query.ok
                 THEN Response("get_user", 500, "",
                               "Unable to retrieve user", <<>>)
                 ELSE Response("get_user", 200, "", "", r.query.rows))
    /\ UNCHANGED <<issues, nextId>>

\* #[get("/user/{user_id}")] get_user_by_id up to its await.
get_user_by_id(user_id, clerkUp) ==
    /\ Arrive(Suspended("get_user_by_id", "get_user", NoCredential, 0,
                        user_id, NoPayload, ClerkUser(user_id, clerkUp)))
    /\ UNCHANGED <<issues, nextId, response>>

\* get_user_by_id from the lookup's result on.
get_user_by_id_respond(r) ==
    /\ BagIn(r, pending)
    /\ r.kind = "get_user_by_id"
    /\ Return(r, IF ~r.query.ok
                 THEN Response("get_user_by_id", 500, "FAILED",
                               "Unable to retrieve all users", <<>>)
                 ELSE Response("get_user_by_id", 200, "", "", r.query.rows))
    /\ UNCHANGED <<issues, nextId>>

NextBackend ==
    \/ \E payload \in NewIssues, dbUp \in BOOLEAN :
          add_issue(payload, dbUp) /\ UNCHANGED <<stripVars, iconVars, earlier>>
    \/ \E r \in BagToSet(pending) :
          add_issue_respond(r) /\ UNCHANGED <<stripVars, iconVars, earlier>>
    \/ \E order \in Orders, dbUp \in BOOLEAN, e \in SqlxErrors :
          get_issues(order, dbUp, e) /\ UNCHANGED <<stripVars, iconVars, earlier>>
    \/ \E r \in BagToSet(pending) :
          get_issues_respond(r) /\ UNCHANGED <<stripVars, iconVars, earlier>>
    \/ \E id \in IssueIds, dbUp \in BOOLEAN :
          get_issue(id, dbUp) /\ UNCHANGED <<stripVars, iconVars, earlier>>
    \/ \E r \in BagToSet(pending) :
          get_issue_respond(r) /\ UNCHANGED <<stripVars, iconVars, earlier>>
    \/ \E cred \in Credentials, id \in IssueIds, payload \in NewIssues :
          update_issue(cred, id, payload) /\ UNCHANGED <<stripVars, iconVars, earlier>>
    \/ \E r \in BagToSet(pending), dbUp \in BOOLEAN :
          update_issue_select(r, dbUp) /\ UNCHANGED <<stripVars, iconVars, earlier>>
    \/ \E r \in BagToSet(pending), dbUp \in BOOLEAN :
          update_issue_statement(r, dbUp) /\ UNCHANGED <<stripVars, iconVars, earlier>>
    \/ \E r \in BagToSet(pending) :
          update_issue_respond(r) /\ UNCHANGED <<stripVars, iconVars, earlier>>
    \/ \E cred \in Credentials, id \in IssueIds :
          delete_issue(cred, id) /\ UNCHANGED <<stripVars, iconVars, earlier>>
    \/ \E r \in BagToSet(pending), dbUp \in BOOLEAN :
          delete_issue_select(r, dbUp) /\ UNCHANGED <<stripVars, iconVars, earlier>>
    \/ \E r \in BagToSet(pending), dbUp \in BOOLEAN :
          delete_issue_statement(r, dbUp) /\ UNCHANGED <<stripVars, iconVars, earlier>>
    \/ \E r \in BagToSet(pending) :
          delete_issue_respond(r) /\ UNCHANGED <<stripVars, iconVars, earlier>>
    \/ \E cred \in Credentials :
          get_user(cred) /\ UNCHANGED <<stripVars, iconVars, earlier>>
    \/ \E r \in BagToSet(pending), clerkUp \in BOOLEAN :
          get_user_lookup(r, clerkUp) /\ UNCHANGED <<stripVars, iconVars, earlier>>
    \/ \E r \in BagToSet(pending) :
          get_user_respond(r) /\ UNCHANGED <<stripVars, iconVars, earlier>>
    \/ \E user_id \in Users, clerkUp \in BOOLEAN :
          get_user_by_id(user_id, clerkUp) /\ UNCHANGED <<stripVars, iconVars, earlier>>
    \/ \E r \in BagToSet(pending) :
          get_user_by_id_respond(r) /\ UNCHANGED <<stripVars, iconVars, earlier>>

SpecBackend == Init /\ [][NextBackend]_vars


(***************************************************************************)
(* Properties of the CommunitySupportedNumbers section (SpecStrip).        *)
(***************************************************************************)
\* What a metrics sequence asks a render to show: one value text and one
\* label text per metric, in order.
ValueLabels(ms) ==
    [i \in 1..Len(ms) |-> [value |-> <<ms[i].value>>, label |-> <<ms[i].label>>]]

BlocksShow(tree, ms) == MetricBlocks(tree) = ValueLabels(ms)

HeadingCtaPresent(tree) ==
    /\ \E i \in 1..Len(GridOf(tree).kids) : IsHeadingBlock(GridOf(tree).kids[i])
    /\ Len(HeadingTexts(tree)) = 1
    /\ Len(Links(tree)) = 1

\* C1 as stated: for every metrics sequence of length N given to the
\* section, the render holds exactly N metric blocks and the i-th block
\* shows the value and label of the i-th given metric.
C1_BlocksFollowInput == Rendered => BlocksShow(output, props.metrics)

\* C1 amended: the section reads no metrics input; the render shows the
\* given sequence, block for block and in order, exactly when the given
\* sequence has the values and labels of the three metrics written in the
\* component, in their order.
C1_BlocksFollowInputOnlyForReference ==
    Rendered =>
        (BlocksShow(output, props.metrics)
            <=> ValueLabels(props.metrics) = ValueLabels(ReferenceMetrics))

C1_Witness ==
    /\ Rendered
    /\ props.metrics = ReferenceMetrics
    /\ Len(MetricBlocks(output)) = 3
    /\ BlocksShow(output, props.metrics)

\* C2: rendering the reference content yields the heading "Supported by the
\* community" and exactly three metric blocks, (20k, Github Stars),
\* (10k, Discord Users), (100, Contributors), in that order, each label in
\* the block of its own value.
C2_ReferenceRender ==
    (Rendered /\ props = ReferenceContent) =>
        /\ HeadingTexts(output) = <<(<<"Supported by the community">>)>>
        /\ MetricBlocks(output) =
              <<[value |-> <<"20k">>, label |-> <<"Github Stars">>],
                [value |-> <<"10k">>, label |-> <<"Discord Users">>],
                [value |-> <<"100">>, label |-> <<"Contributors">>]>>

C2_Witness ==
    /\ Rendered
    /\ props = ReferenceContent
    /\ Len(MetricBlocks(output)) = 3

\* C3 as stated: with metrics = [] the render still holds the heading/CTA
\* block and holds zero metric blocks.
C3_EmptyMetricsNoBlocks ==
    (Rendered /\ props.metrics = <<>>) =>
        /\ HeadingCtaPresent(output)
        /\ Len(MetricBlocks(output)) = 0

\* C3 amended: a render is possible for every config, an empty label and an
\* empty metrics sequence included; every render holds the heading/CTA
\* block; with metrics = [] the render still holds the three metric blocks
\* written in the component.
C3_RenderNeverFails ==
    /\ \A cfg \in Configs : ENABLED Render(cfg)
    /\ Rendered => HeadingCtaPresent(output)
    /\ (Rendered /\ props.metrics = <<>>) =>
          Len(MetricBlocks(output)) = Len(ReferenceMetrics)

C3_Witness ==
    /\ Rendered
    /\ props.metrics = <<>>
    /\ props.ctaLabel = ""
    /\ HeadingCtaPresent(output)

\* C4: any two renders with the same config commit the same output,
\* whatever came between them (renders of other configs, resizes, pointer
\* moves) and however many renders came before the first of the two: when
\* the committed config is the one noted from an earlier render, the
\* committed output is the output noted with it.  And a step that commits
\* a render leaves the viewport and the hover state as they were.
C4_RenderIsPure ==
    /\ [](earlier.taken /\ props = earlier.props => output = earlier.output)
    /\ [][(props' # props \/ output' # output \/ renders' # renders)
            => (viewport' = viewport /\ hover' = hover)]_vars

\* The noted config has been rendered again after a render of another
\* config and a resize, at another viewport than the base one, and the
\* committed tree is the noted one.
C4_Witness ==
    /\ earlier.taken
    /\ earlier.again
    /\ props = earlier.props
    /\ output = earlier.output
    /\ viewport = "lg"
    /\ renders = MaxRenders

\* C5 as stated: below lg everything is in a single column, the heading
\* block first and every metric on a row of its own.
C5_NarrowSingleColumn ==
    (Rendered /\ viewport # "lg") =>
        LET L == Layout(output, viewport, hover)
            kids == GridOf(output).kids
        IN /\ Len(L) = 1 + Len(MetricBlocks(output))
           /\ IsHeadingBlock(kids[L[1].item])
           /\ \A i \in 1..Len(L) : L[i].col = 1 /\ L[i].row = i
           /\ \A i \in 2..Len(L) : IsMetricBlock(kids[L[i].item])

\* C5 amended: below lg the grid has three equal columns; the heading/CTA
\* block spans the whole first row, the separator takes no cell, and the
\* three metric blocks follow in source order side by side in the second
\* row, one per column.
C5_NarrowHeadingRowThenMetricsRow ==
    (Rendered /\ viewport # "lg") =>
        LET L == Layout(output, viewport, hover)
            g == GridOf(output)
        IN /\ GridTemplate(g, viewport, hover) = <<"1fr", "1fr", "1fr">>
           /\ Len(L) = 4
           /\ IsHeadingBlock(g.kids[L[1].item])
           /\ L[1].row = 1 /\ L[1].col = 1 /\ L[1].span = 3
           /\ \A i \in 1..3 :
                 /\ g.kids[L[i + 1].item] =
                       SelectSeq(g.kids, IsMetricBlock)[i]
                 /\ L[i + 1].row = 2 /\ L[i + 1].col = i /\ L[i + 1].span = 1
           /\ \A q \in SeparatorPaths(output) :
                 ~Displayed(NodeAt(output, q), viewport, hover)

C5_Witness ==
    /\ Rendered
    /\ viewport = "base"
    /\ Len(Layout(output, viewport, hover)) = 4
    /\ Layout(output, viewport, hover)[3].row = Layout(output, viewport, hover)[2].row

\* The column template [heading][separator][metric]...[metric] for n metrics.
WideTemplate(n) == <<"1fr", "51px">> \o [i \in 1..n |-> "1fr"]

WideRow(tree, vp, hv, n) ==
    LET L == Layout(tree, vp, hv)
        g == GridOf(tree)
    IN /\ GridTemplate(g, vp, hv) = WideTemplate(n)
       /\ Len(L) = 2 + n
       /\ \A i \in 1..Len(L) : L[i].row = 1 /\ L[i].col = i /\ L[i].span = 1
       /\ IsHeadingBlock(g.kids[L[1].item])
       /\ IsSeparator(g.kids[L[2].item])
       /\ AttrOf(g.kids[L[2].item], "width") = "51"
       /\ \A i \in 1..n :
             g.kids[L[i + 2].item] = SelectSeq(g.kids, IsMetricBlock)[i]

\* C6 as stated: at lg the row is [heading][51px separator][metric_0]...
\* [metric_N-1] for every N, the metrics being the N given ones in order.
C6_WideRowForEveryN ==
    (Rendered /\ viewport = "lg") =>
        /\ WideRow(output, viewport, hover, Len(props.metrics))
        /\ BlocksShow(output, props.metrics)

\* C6 amended: at lg the heading/CTA block is in the first column, the
\* separator in the 51px second column and each of the three metrics
\* written in the component in its own column after it, in source order,
\* all in one row; the template has these five columns whatever N the
\* given config has.
C6_WideRowOfFive ==
    (Rendered /\ viewport = "lg") =>
        /\ WideRow(output, viewport, hover, 3)
        /\ BlocksShow(output, ReferenceMetrics)

C6_Witness ==
    /\ Rendered
    /\ viewport = "lg"
    /\ Len(props.metrics) = 2
    /\ Len(Layout(output, viewport, hover)) = 5

\* C7: in every render the arrow glyph and the separator glyph are present
\* in the markup and marked as excluded from the accessibility tree, while
\* the heading, the CTA label and every metric value and label are in it.
C7_GlyphsMarkedDecorative ==
    Rendered =>
        /\ ArrowPaths(output) # {}
        /\ SeparatorPaths(output) # {}
        /\ \A q \in ArrowPaths(output) \cup SeparatorPaths(output) :
              MarkedExcluded(output, q)
        /\ \A q \in TextPaths(output) :
              InAccessibilityTree(output, q, viewport, hover)

\* What hovering may change: on the arrow, the `left` offset, and nothing
\* else anywhere in the tree.
HoverChangesOnlyArrowLeft(tree, vp) ==
    /\ \A q \in Paths(tree) :
          \A prop \in CssProperties(NodeAt(tree, q)) :
              Computed(NodeAt(tree, q), prop, vp, TRUE)
                  # Computed(NodeAt(tree, q), prop, vp, FALSE)
              => (q \in ArrowPaths(tree) /\ prop = "left")
    /\ \A q \in ArrowPaths(tree) :
          /\ Computed(NodeAt(tree, q), "left", vp, FALSE).n = 2
          /\ Computed(NodeAt(tree, q), "left", vp, TRUE).n = 4

\* C8 as stated: the CTA is exactly one link whose href is the given
\* ctaHref and whose text is the given ctaLabel.
C8_LinkFollowsConfig ==
    Rendered =>
        Links(output) = <<[href |-> props.ctaHref, text |-> <<props.ctaLabel>>]>>

\* C8 amended: the CTA is exactly one link whose href is "#" and whose text
\* is "Join them now", whatever ctaHref and ctaLabel are given (so it is the
\* given pair for the reference content); the pointer entering or leaving
\* the link changes only the horizontal offset of the arrow glyph and
\* leaves the href, the text, the metric blocks and the rest of the render
\* as they were.
C8_FixedLinkAndHoverFrame ==
    /\ [](Rendered =>
            Links(output) = <<[href |-> "#", text |-> <<"Join them now">>]>>)
    /\ [][hover' # hover =>
            /\ output' = output
            /\ props' = props
            /\ viewport' = viewport
            /\ HoverChangesOnlyArrowLeft(output, viewport)]_vars

C8_Witness ==
    /\ Rendered
    /\ hover
    /\ props.ctaHref = "#"
    /\ \A q \in ArrowPaths(output) :
          Computed(NodeAt(output, q), "left", viewport, hover).n = 4

(***************************************************************************)
(* Properties of the Authentication icon (SpecIcon).                       *)
(***************************************************************************)
\* C9: the icon always renders the same fixed path; with no props it is 34
\* by 34; every attribute the caller passes takes effect with the caller's
\* value, the colour the shape is drawn in included.
C9_CallerAttributesTakeEffect ==
    IconRendered =>
        /\ Len(iconOutput.kids) = 1
        /\ AttrOf(iconOutput.kids[1], "d") = AuthenticationD
        /\ iconProps = {} =>
              /\ AttrOf(iconOutput, "width") = "34"
              /\ AttrOf(iconOutput, "height") = "34"
        /\ \A a \in iconProps :
              /\ AttrOf(iconOutput, a[1]) = a[2]
              /\ a[1] \in {"fill", "stroke"} =>
                    Paint(iconOutput, iconOutput.kids[1], a[1]) = a[2]

(***************************************************************************)
(* Properties of the tutorial backend (SpecBackend).                       *)
(***************************************************************************)
RowChanged(id) == id \notin DOMAIN issues' \/ issues'[id] # issues[id]

\* The step resumed a handler suspended as r; the step left a handler
\* suspended as s.
Resumed(r) == CopiesIn(r, pending') < CopiesIn(r, pending)
Suspends(s) == CopiesIn(s, pending') > CopiesIn(s, pending)

\* C10: over any sequence of add_issue, update_issue and delete_issue
\* requests, however their handlers interleave, a row of the table is
\* modified or removed only in the step of a request that carries a valid
\* claim whose sub is the row's stored author (which no request ever
\* rewrites, so it is the author the handler checked on the row it had
\* selected); requests without a valid claim or from another user leave
\* the row alone.
C10_OnlyAuthorChangesRow ==
    [][\A id \in DOMAIN issues :
          /\ id \in DOMAIN issues' => issues'[id].author = issues[id].author
          /\ RowChanged(id) =>
                \E r \in BagToSet(pending) :
                    /\ Resumed(r)
                    /\ r.kind \in {"update_issue", "delete_issue"}
                    /\ r.pc = "select"
                    /\ r.issue_id = id
                    /\ r.cred.valid
                    /\ r.cred.sub = issues[id].author]_vars

\* The author's DELETE has removed a row while another user's request still
\* holds that row from its own SELECT.
C10_Witness ==
    /\ \E r \in BagToSet(pending) :
          /\ r.kind = "delete_issue"
          /\ r.pc = "statement"
          /\ r.issue_id \in 1..(nextId - 1)
          /\ r.issue_id \notin DOMAIN issues
    /\ \E r \in BagToSet(pending) :
          /\ r.pc = "select"
          /\ fetch_one(r.query)
          /\ r.query.rows[1].id \notin DOMAIN issues
          /\ r.query.rows[1].author # r.cred.sub

\* The rejection C11 gives a request, from the claim it carries and the
\* table alone: "403", "404", "401", or "pass" when all three checks pass.
ClaimedVerdict(cred, issue_id) ==
    IF ~cred.valid THEN "403"
    ELSE IF issue_id \notin DOMAIN issues THEN "404"
    ELSE IF issues[issue_id].author # cred.sub THEN "401"
    ELSE "pass"

\* The same with the SELECT taken into account: a SELECT that fails is
\* answered like one that finds no row.
AnsweredVerdict(cred, issue_id, dbUp) ==
    IF ~cred.valid THEN "403"
    ELSE IF ~dbUp \/ issue_id \notin DOMAIN issues THEN "404"
    ELSE IF issues[issue_id].author # cred.sub THEN "401"
    ELSE "pass"

\* What the SELECT's result holds in store for the request suspended on it.
SelectedVerdict(r) ==
    IF ~fetch_one(r.query) THEN "404"
    ELSE IF r.query.rows[1].author # r.cred.sub THEN "401"
    ELSE "pass"

StatusCode == [c \in {"403", "404", "401"} |->
                 IF c = "403" THEN 403 ELSE IF c = "404" THEN 404 ELSE 401]

\* The step answers r with verdict v's status code and touches no row.
Rejects(r, v) ==
    /\ response'.handler = r.kind
    /\ response'.code = StatusCode[v]
    /\ response'.status = "FAILED"
    /\ pending' = pending (-) SetToBag({r})
    /\ issues' = issues

\* What the step from the claim to the SELECT must have done for verdict v
\* of the request: "403" is answered at once, before any lookup; otherwise
\* the request goes on with a SELECT result that holds "404" or "401" in
\* store when v says so, and lets it pass only when v does.
SelectStepAgrees(r, v) ==
    /\ issues' = issues
    /\ v = "403" => Rejects(r, v)
    /\ v # "403" =>
          \E s \in BagToSet(pending') :
              /\ Suspends(s)
              /\ s.kind = r.kind
              /\ s.pc = "select"
              /\ s.cred = r.cred
              /\ s.issue_id = r.issue_id
              /\ v \in {"404", "401"} => SelectedVerdict(s) = v
              /\ SelectedVerdict(s) = "pass" => v = "pass"

\* What the step from the SELECT's result on must have done: "404" or "401"
\* as the result has in store, with no row touched, and the statement only
\* for a request that passed.
StatementStepAgrees(r) ==
    /\ SelectedVerdict(r) # "pass" => Rejects(r, SelectedVerdict(r))
    /\ (\/ issues' # issues
        \/ \E s \in BagToSet(pending') : Suspends(s) /\ s.pc = "statement")
          => r.cred.valid /\ SelectedVerdict(r) = "pass"

\* C11 as stated: update_issue and delete_issue answer 403 without a valid
\* claim (even when the issue does not exist), otherwise 404 for an id that
\* does not exist, otherwise 401 when the claim's sub is not the issue's
\* author; every rejection leaves the table unchanged and the UPDATE or
\* DELETE is issued only after all three checks pass.
C11_FixedPrecedence ==
    [][\A r \in BagToSet(pending), dbUp \in BOOLEAN :
          /\ (update_issue_select(r, dbUp) \/ delete_issue_select(r, dbUp))
                => SelectStepAgrees(r, ClaimedVerdict(r.cred, r.issue_id))
          /\ (update_issue_statement(r, dbUp)
              \/ delete_issue_statement(r, dbUp))
                => StatementStepAgrees(r)]_vars

\* C11 amended: the same precedence, with the second and third checks made
\* on what the SELECT returned: without a valid claim 403 (even when the
\* issue does not exist), otherwise 404 when the SELECT yields no row,
\* because the id does not exist or because the query failed, otherwise 401
\* when the claim's sub is not the author of the row the SELECT returned;
\* every rejection leaves the table unchanged, and the UPDATE or DELETE is
\* issued only by a request that passed all three checks, so every request
\* past its claim check carries a valid claim.
C11_PrecedenceWithFailedSelect ==
    /\ [](\A r \in BagToSet(pending) :
            (r.kind \in {"update_issue", "delete_issue"}
             /\ r.pc \in {"select", "statement"}) => r.cred.valid)
    /\ [][\A r \in BagToSet(pending), dbUp \in BOOLEAN :
            /\ (update_issue_select(r, dbUp) \/ delete_issue_select(r, dbUp))
                  => SelectStepAgrees(r, AnsweredVerdict(r.cred, r.issue_id,
                                                         dbUp))
            /\ (update_issue_statement(r, dbUp)
                \/ delete_issue_statement(r, dbUp))
                  => StatementStepAgrees(r)]_vars

\* Another user's delete_issue was answered 401 on the row it had selected,
\* after the author's own request, still in flight, removed that row.
C11_Witness ==
    /\ response.handler = "delete_issue"
    /\ response.code = 401
    /\ nextId > 1
    /\ issues = <<>>
    /\ \E r \in BagToSet(pending) : r.pc = "statement" /\ r.cred.valid

\* C12: when the author's update_issue (or delete_issue) reaches its
\* statement and the database applies it to the row, the handler answers
\* 200 "SUCCESS" with "Updated successfully" ("Deleted successfully"); it
\* answers 500 only when the table was left unchanged.
C12_ResponseAgreesWithTable ==
    [][\A r \in BagToSet(pending), dbUp \in BOOLEAN :
          /\ (update_issue_statement(r, dbUp)
              \/ delete_issue_statement(r, dbUp)) =>
                \A s \in {t \in BagToSet(pending') : Suspends(t)} :
                    /\ (dbUp /\ r.issue_id \in DOMAIN issues)
                          => fetch_one(s.query)
                    /\ ~fetch_one(s.query) => issues' = issues
          /\ (update_issue_respond(r) \/ delete_issue_respond(r)) =>
                IF fetch_one(r.query)
                THEN /\ response'.code = 200
                     /\ response'.status = "SUCCESS"
                     /\ response'.message =
                           IF r.kind = "update_issue"
                           THEN "Updated successfully"
                           ELSE "Deleted successfully"
                ELSE response'.code = 500]_vars

====
